---- MODULE Spec2Model ----
(***************************************************************************)
(* Model of scripts/add-participants.py: the participant reconciler.       *)
(*                                                                         *)
(* The script reads a CSV roster, and for every row checks the GitHub      *)
(* handle, looks the handle up in the campaign registry, verifies it with  *)
(* the GitHub API and creates the participant.  It keeps three counters,   *)
(* five message lists and an exit code, prints a report and exits.         *)
(*                                                                         *)
(* Strings that the code inspects character by character (the handle) are  *)
(* sequences of one-character strings.  The loop never looks ahead in      *)
(* `rows`, so the content of a row is chosen when the loop fetches it;     *)
(* only len(rows) is fixed from the start.                                 *)
(***************************************************************************)
EXTENDS Integers, Sequences, FiniteSets, TLC

VARIABLES
    fieldnames,     \* header of the CSV file: the keys of every row dict
    username,       \* GITHUB_USERNAME from the environment
    numRows,        \* len(rows)
    i,              \* number of rows the for loop has fetched
    participant,    \* the loop variable: current row dict (mutated in place)
    send,           \* body of the create request
    r,              \* status code of the last registry response
    count_added,
    count_skipped,
    count_error,
    exitCode,
    summary_error_likely_email,
    summary_error_bad_username,
    summary_error_short_username,
    summary_error_nonexistent_username,
    summary_error_message,
    pc,             \* position of the script
    calls,          \* collaborator calls made for the current row
    registryKind,   \* "any": the registry answers anything; "store": it remembers
    registry,       \* handles held by the registry (when it remembers)
    creates,        \* handles whose create the registry acknowledged, in order
    run,            \* how many times the script has been started
    env,            \* what the environment did in this run, counted outside the script
    h, out          \* normalization applied on its own: input and successive results

counters == <<count_added, count_skipped, count_error>>
summaries == <<summary_error_likely_email, summary_error_bad_username,
               summary_error_short_username, summary_error_nonexistent_username,
               summary_error_message>>
config == <<fieldnames, username, numRows, registryKind>>
loopVars == <<i, participant, send, r, counters, exitCode, summaries, pc, calls,
              registry, creates, run, env>>
normVars == <<h, out>>
vars == <<config, loopVars, normVars>>

----------------------------------------------------------------------------
(* Bounds *)
MaxRows == 5        \* longest roster
MaxRegRows == 3     \* longest roster when the registry remembers and the script is re-run
MaxRuns == 2        \* number of times the script is started
MaxTail == 2        \* longest tail of a generated handle
MaxApply == 2       \* how often normalization is applied in a row

(* Program constants *)
CSV_COLUMN_NAME_GITHUB_ID == "Git Handle"
CSV_COLUMN_NAME_DISPLAY_NAME == "Full Name"
NOTE_COLUMN == "Note"
NOT_A_VALID_ID == "not a valid id"
CAMPAIGN_NAME == "cncf-2021-10-11"
default_gh_username == "set_your_github_username_env"
HOST_MARKER == <<"g","i","t","h","u","b",".","c","o","m","/">>
None == "None"

----------------------------------------------------------------------------
(* String operations of Python, on sequences of characters *)

UpperCase == <<"A","B","C","D","E","F","G","H","I","J","K","L","M",
               "N","O","P","Q","R","S","T","U","V","W","X","Y","Z">>
LowerCase == <<"a","b","c","d","e","f","g","h","i","j","k","l","m",
               "n","o","p","q","r","s","t","u","v","w","x","y","z">>

LowerChar(c) ==
    IF \E k \in 1..26 : UpperCase[k] = c
    THEN LowerCase[CHOOSE k \in 1..26 : UpperCase[k] = c]
    ELSE c

\* str.lower()
Lower(s) == [k \in 1..Len(s) |-> LowerChar(s[k])]

\* sub in s
Contains(s, sub) ==
    \E k \in 0..(Len(s) - Len(sub)) : SubSeq(s, k + 1, k + Len(sub)) = sub

\* os.path.basename(p): what follows the last "/"
Basename(p) ==
    LET slashes == {k \in 1..Len(p) : p[k] = "/"}
        last == IF slashes = {} THEN 0
                ELSE CHOOSE k \in slashes : \A m \in slashes : m <= k
    IN SubSeq(p, last + 1, Len(p))

\* handle.startswith("@") in place of the containment test
LooksLikeEmail_Prefix(handle) == handle # <<>> /\ handle[1] = "@"

\* "@" in handle
LooksLikeEmail(handle) == Contains(handle, <<"@">>)

\* "github.com/" in handle
LooksLikeUrl(handle) == Contains(handle, HOST_MARKER)

\* the URL suffix without the lower-casing of line 74
Normalize_NoLower(handle) ==
    IF LooksLikeUrl(handle) THEN Basename(handle) ELSE handle

\* lines 70-74: URL suffix, then lower case
Normalize(handle) ==
    Lower(IF LooksLikeUrl(handle) THEN Basename(handle) ELSE handle)

\* len(rawUserName) < 3 in place of <= 3
TooShort_Strict(rawUserName) == Len(rawUserName) < 3

\* len(rawUserName) <= 3
TooShort(rawUserName) == Len(rawUserName) <= 3

\* the lookup test inverted
Exists_Inverted(status) == status # 200

\* the lookup test taking every answer of the registry for a hit
Exists_AnyAnswer(status) == status >= 200

\* r.status_code == 200 on the lookup
Exists(status) == status = 200

\* the create test accepting 200 only
Added_Only200(status) == status = 200

\* not (r.status_code != 200 and r.status_code != 201) on the create
Added(status) == ~(status # 200 /\ status # 201)

----------------------------------------------------------------------------
(* Inputs *)

Handles == {
    <<"a","@","b">>,
    <<"n","/","a">>,
    <<"O","c","t","o">>,
    <<"h","t","t","p","s",":","/","/","g","i","t","h","u","b",".","c","o","m","/","o","c","t","o">>
}

Notes == {"", NOT_A_VALID_ID}

\* the dicts csv.DictReader yields for a header with or without a Note column
Row(handle, note, withNote) ==
    IF withNote
    THEN (CSV_COLUMN_NAME_GITHUB_ID :> handle) @@ (CSV_COLUMN_NAME_DISPLAY_NAME :> "name")
         @@ (NOTE_COLUMN :> note)
    ELSE (CSV_COLUMN_NAME_GITHUB_ID :> handle) @@ (CSV_COLUMN_NAME_DISPLAY_NAME :> "name")

Headers == {
    {CSV_COLUMN_NAME_GITHUB_ID, CSV_COLUMN_NAME_DISPLAY_NAME},
    {CSV_COLUMN_NAME_GITHUB_ID, CSV_COLUMN_NAME_DISPLAY_NAME, NOTE_COLUMN}
}

Rows(header) ==
    IF NOTE_COLUMN \in header
    THEN {Row(hd, n, TRUE) : hd \in Handles, n \in Notes}
    ELSE {Row(hd, "", FALSE) : hd \in Handles}

NoRow == (CSV_COLUMN_NAME_GITHUB_ID :> <<>>)
NoSend == [campaignName |-> CAMPAIGN_NAME, GithubName |-> <<>>, DisplayName |-> ""]

LookupStatuses == {200, 404}
GithubStatuses == {200, 404}
CreateStatuses == {200, 201, 500}

RegistryHandles == {Normalize(hd) : hd \in {x \in Handles : ~LooksLikeEmail(x)}}

NoEnv == [emails |-> 0, found |-> 0, unverified |-> 0, acknowledged |-> 0, rejected |-> 0]

----------------------------------------------------------------------------
(* The script *)

\* lines 49-57: counters, exit code and message lists of a fresh run
Fresh ==
    /\ i = 0
    /\ participant = NoRow
    /\ send = NoSend
    /\ r = 0
    /\ count_added = 0
    /\ count_skipped = 0
    /\ count_error = 0
    /\ exitCode = 0
    /\ summary_error_likely_email = <<>>
    /\ summary_error_bad_username = <<>>
    /\ summary_error_short_username = <<>>
    /\ summary_error_nonexistent_username = <<>>
    /\ summary_error_message = <<>>
    /\ pc = "for"
    /\ calls = <<>>
    /\ env = NoEnv

NormIdle ==
    /\ h = <<>>
    /\ out = <<>>

Init ==
    /\ fieldnames \in Headers
    /\ username \in {default_gh_username, "octo-admin"}
    /\ numRows \in 0..MaxRows
    /\ registryKind = "any"
    /\ registry = {}
    /\ creates = <<>>
    /\ run = 1
    /\ Fresh
    /\ NormIdle

----------------------------------------------------------------------------
(* The for loop, one action per block of the loop body *)

HandleOf(p) == p[CSV_COLUMN_NAME_GITHUB_ID]

\* the f-string messages: the text and the row it was built from
Message(text, p) == <<text, p>>

\* GET {BASE_URL}/participant/detail/{handle}
LookupAnswers(handle) ==
    IF registryKind = "store"
    THEN (IF handle \in registry THEN {200} ELSE {404})
    ELSE LookupStatuses

\* line 58: the loop fetches the next row
ForNext ==
    /\ pc = "for"
    /\ i < numRows
    /\ \E p \in Rows(fieldnames) :
          /\ participant' = p
          /\ env' = [env EXCEPT !.emails =
                        IF Contains(HandleOf(p), <<"@">>) THEN @ + 1 ELSE @]
    /\ i' = i + 1
    /\ calls' = <<>>
    /\ pc' = "email"
    /\ UNCHANGED <<config, send, r, counters, exitCode, summaries, registry, creates, run,
                   normVars>>

\* line 58: rows is exhausted
ForDone ==
    /\ pc = "for"
    /\ i = numRows
    /\ pc' = "report"
    /\ UNCHANGED <<config, i, participant, send, r, counters, exitCode, summaries, calls,
                   registry, creates, run, env, normVars>>

\* lines 60-67: detect email instead of required github ID
CheckEmail ==
    /\ pc = "email"
    /\ IF LooksLikeEmail(HandleOf(participant))
       THEN /\ summary_error_likely_email' =
                  Append(summary_error_likely_email,
                         Message("invalid Github ID detected", participant))
            /\ count_error' = count_error + 1
            /\ exitCode' = 1
            /\ pc' = "for"
       ELSE /\ pc' = "normalize"
            /\ UNCHANGED <<summary_error_likely_email, count_error, exitCode>>
    /\ UNCHANGED <<config, i, participant, send, r, count_added, count_skipped,
                   summary_error_bad_username, summary_error_short_username,
                   summary_error_nonexistent_username, summary_error_message,
                   calls, registry, creates, run, env, normVars>>

\* lines 69-74: suffix of a github url, then lower case, written back into the row
NormalizeHandle ==
    /\ pc = "normalize"
    /\ participant' = [participant EXCEPT ![CSV_COLUMN_NAME_GITHUB_ID] = Normalize(@)]
    /\ pc' = "lookup"
    /\ UNCHANGED <<config, i, send, r, counters, exitCode, summaries, calls,
                   registry, creates, run, env, normVars>>

\* lines 76-86: build the request body, look the handle up, skip if it exists
Lookup ==
    /\ pc = "lookup"
    /\ send' = [campaignName |-> CAMPAIGN_NAME,
                GithubName |-> HandleOf(participant),
                DisplayName |-> participant[CSV_COLUMN_NAME_DISPLAY_NAME]]
    /\ calls' = Append(calls, "GET")
    /\ \E status \in LookupAnswers(HandleOf(participant)) :
          /\ r' = status
          /\ env' = [env EXCEPT !.found = IF status = 200 THEN @ + 1 ELSE @]
          /\ IF Exists(status)
             THEN /\ count_skipped' = count_skipped + 1
                  /\ pc' = "for"
             ELSE /\ pc' = "note"
                  /\ UNCHANGED count_skipped
    /\ UNCHANGED <<config, i, participant, count_added, count_error, exitCode, summaries,
                   registry, creates, run, normVars>>

\* lines 87-95: the row is flagged in the Note column
CheckNote ==
    /\ pc = "note"
    /\ IF NOTE_COLUMN \notin DOMAIN participant
       THEN \* participant['Note'] raises KeyError: the script dies with a traceback
            /\ pc' = "KeyError"
            /\ UNCHANGED <<summary_error_bad_username, count_error, exitCode>>
       ELSE IF participant[NOTE_COLUMN] = NOT_A_VALID_ID
       THEN /\ summary_error_bad_username' =
                  Append(summary_error_bad_username,
                         Message("flagged as not a valid Github ID", participant))
            /\ count_error' = count_error + 1
            /\ exitCode' = 1
            /\ pc' = "for"
       ELSE /\ pc' = "length"
            /\ UNCHANGED <<summary_error_bad_username, count_error, exitCode>>
    /\ UNCHANGED <<config, i, participant, send, r, count_added, count_skipped,
                   summary_error_likely_email, summary_error_short_username,
                   summary_error_nonexistent_username, summary_error_message,
                   calls, registry, creates, run, env, normVars>>

\* lines 97-103: username too short
CheckLength ==
    /\ pc = "length"
    /\ IF TooShort(HandleOf(participant))
       THEN /\ summary_error_short_username' =
                  Append(summary_error_short_username,
                         Message("username too short", participant))
            /\ count_error' = count_error + 1
            /\ exitCode' = 1
            /\ pc' = "for"
       ELSE /\ pc' = "verify"
            /\ UNCHANGED <<summary_error_short_username, count_error, exitCode>>
    /\ UNCHANGED <<config, i, participant, send, r, count_added, count_skipped,
                   summary_error_likely_email, summary_error_bad_username,
                   summary_error_nonexistent_username, summary_error_message,
                   calls, registry, creates, run, env, normVars>>

\* lines 25-38: the profile of a 200 answer, None otherwise
get_github_user(status) == IF status = 200 THEN "profile" ELSE None

\* lines 105-114: verify the handle with the GitHub API
Verify ==
    /\ pc = "verify"
    /\ calls' = Append(calls, "USERS")
    /\ \E status \in GithubStatuses :
          LET gh_user == get_github_user(status) IN
          /\ env' = [env EXCEPT !.unverified = IF status # 200 THEN @ + 1 ELSE @]
          /\ IF gh_user = None
             THEN /\ summary_error_message' =
                        IF username = default_gh_username
                        THEN Append(summary_error_message,
                                    "did you forget to set the GITHUB_USERNAME environment variable?")
                        ELSE summary_error_message
                  /\ summary_error_nonexistent_username' =
                        Append(summary_error_nonexistent_username,
                               Message("non-existent github id, error", participant))
                  /\ count_error' = count_error + 1
                  /\ exitCode' = 1
                  /\ pc' = "for"
             ELSE /\ pc' = "create"
                  /\ UNCHANGED <<summary_error_message, summary_error_nonexistent_username,
                                 count_error, exitCode>>
    /\ UNCHANGED <<config, i, participant, send, r, count_added, count_skipped,
                   summary_error_likely_email, summary_error_bad_username,
                   summary_error_short_username, registry, creates, run, normVars>>

\* the create block with the else of line 124 lost: count_added += 1 runs for every answer
Create_NoElse ==
    /\ pc = "create"
    /\ calls' = Append(calls, "PUT")
    /\ \E status \in CreateStatuses :
          /\ r' = status
          /\ IF status \in {200, 201}
             THEN /\ env' = [env EXCEPT !.acknowledged = @ + 1]
                  /\ creates' = Append(creates, send.GithubName)
                  /\ registry' = IF registryKind = "store"
                                 THEN registry \cup {send.GithubName} ELSE registry
             ELSE /\ env' = [env EXCEPT !.rejected = @ + 1]
                  /\ UNCHANGED <<creates, registry>>
          /\ IF ~Added(status)
             THEN /\ summary_error_message' =
                        Append(summary_error_message,
                               Message("error adding participant", <<status, participant>>))
                  /\ count_error' = count_error + 1
             ELSE UNCHANGED <<summary_error_message, count_error>>
          /\ count_added' = count_added + 1
    /\ pc' = "for"
    /\ UNCHANGED <<config, i, participant, send, count_skipped, exitCode,
                   summary_error_likely_email, summary_error_bad_username,
                   summary_error_short_username, summary_error_nonexistent_username,
                   run, normVars>>

\* lines 116-125: create the participant and count the answer
Create ==
    /\ pc = "create"
    /\ calls' = Append(calls, "PUT")
    /\ \E status \in CreateStatuses :
          /\ r' = status
          /\ IF status \in {200, 201}
             THEN /\ env' = [env EXCEPT !.acknowledged = @ + 1]
                  /\ creates' = Append(creates, send.GithubName)
                  /\ registry' = IF registryKind = "store"
                                 THEN registry \cup {send.GithubName} ELSE registry
             ELSE /\ env' = [env EXCEPT !.rejected = @ + 1]
                  /\ UNCHANGED <<creates, registry>>
          /\ IF ~Added(status)
             THEN /\ summary_error_message' =
                        Append(summary_error_message,
                               Message("error adding participant", <<status, participant>>))
                  /\ count_error' = count_error + 1
                  /\ UNCHANGED count_added
             ELSE /\ count_added' = count_added + 1
                  /\ UNCHANGED <<summary_error_message, count_error>>
    /\ pc' = "for"
    /\ UNCHANGED <<config, i, participant, send, count_skipped, exitCode,
                   summary_error_likely_email, summary_error_bad_username,
                   summary_error_short_username, summary_error_nonexistent_username,
                   run, normVars>>

\* lines 127-147: print the report and exit(exitCode)
Report ==
    /\ pc = "report"
    /\ pc' = "done"
    /\ UNCHANGED <<config, i, participant, send, r, counters, exitCode, summaries, calls,
                   registry, creates, run, env, normVars>>

Next ==
    \/ ForNext
    \/ ForDone
    \/ CheckEmail
    \/ NormalizeHandle
    \/ Lookup
    \/ CheckNote
    \/ CheckLength
    \/ Verify
    \/ Create
    \/ Report

Spec == Init /\ [][Next]_vars

----------------------------------------------------------------------------
(* The script run again against a registry that remembers *)

InitReg ==
    /\ fieldnames \in Headers
    /\ username \in {default_gh_username, "octo-admin"}
    /\ numRows \in 0..MaxRegRows
    /\ registryKind = "store"
    /\ registry \in SUBSET RegistryHandles
    /\ creates = <<>>
    /\ run = 1
    /\ Fresh
    /\ NormIdle

\* lines 45-57: the script is started again on the same file
Restart ==
    /\ pc = "done"
    /\ run < MaxRuns
    /\ run' = run + 1
    /\ i' = 0
    /\ participant' = NoRow
    /\ send' = NoSend
    /\ r' = 0
    /\ count_added' = 0
    /\ count_skipped' = 0
    /\ count_error' = 0
    /\ exitCode' = 0
    /\ summary_error_likely_email' = <<>>
    /\ summary_error_bad_username' = <<>>
    /\ summary_error_short_username' = <<>>
    /\ summary_error_nonexistent_username' = <<>>
    /\ summary_error_message' = <<>>
    /\ pc' = "for"
    /\ calls' = <<>>
    /\ env' = NoEnv
    /\ UNCHANGED <<config, registry, creates, normVars>>

NextReg ==
    \/ Next
    \/ Restart

SpecReg == InitReg /\ [][NextReg]_vars

----------------------------------------------------------------------------
(* Normalization on its own, applied repeatedly to one handle *)

Heads == {<<>>, <<"x","/">>}
Hosts == {<<>>, HOST_MARKER, <<"G","i","t","H","u","b",".","c","o","m","/">>}
TailChars == {"a", "B", "/"}
Tails == UNION {[1..n -> TailChars] : n \in 0..MaxTail}

InitNorm ==
    /\ fieldnames = {CSV_COLUMN_NAME_GITHUB_ID, CSV_COLUMN_NAME_DISPLAY_NAME, NOTE_COLUMN}
    /\ username = default_gh_username
    /\ numRows = 0
    /\ registryKind = "any"
    /\ registry = {}
    /\ creates = <<>>
    /\ run = 1
    /\ Fresh
    /\ h \in {a \o b \o c : a \in Heads, b \in Hosts, c \in Tails}
    /\ out = <<>>

\* lines 69-74 applied to the result of the previous application
ApplyNormalize ==
    /\ Len(out) < MaxApply
    /\ out' = Append(out, Normalize(IF out = <<>> THEN h ELSE out[Len(out)]))
    /\ UNCHANGED <<config, loopVars, h>>

NextNorm == ApplyNormalize

SpecNorm == InitNorm /\ [][NextNorm]_vars

----------------------------------------------------------------------------
(* Properties *)

Total == count_added + count_skipped + count_error
AtLoopHead == pc \in {"for", "report", "done"}
HasAt(handle) == \E k \in 1..Len(handle) : handle[k] = "@"
Appended(old, new) == Len(new) = Len(old) + 1 /\ SubSeq(new, 1, Len(old)) = old

\* C1: a row without "@" whose normalized handle the registry reports as found
\* (status 200) increments skipped by one and changes nothing else, whatever its
\* note or length, and neither the verification nor the create is called for it.
C1_FoundIsSkippedOnly ==
    [][(pc = "lookup" /\ r' = 200) =>
          /\ count_skipped' = count_skipped + 1
          /\ UNCHANGED <<count_added, count_error, exitCode, summaries, registry, creates>>
          /\ calls' = <<"GET">>
          /\ pc' = "for"]_vars

\* a flagged row with a short handle has just been skipped after the lookup alone
C1_Witness ==
    /\ pc = "for"
    /\ i > 0
    /\ r = 200
    /\ ~HasAt(HandleOf(participant))
    /\ Len(HandleOf(participant)) <= 3
    /\ NOTE_COLUMN \in DOMAIN participant
    /\ participant[NOTE_COLUMN] = NOT_A_VALID_ID
    /\ calls = <<"GET">>
    /\ count_skipped = 1
    /\ count_error = 0

\* C2: whenever a row has failed at any step (email-shaped, flagged, too short,
\* not verified, create rejected) the exit code is 1 from then on, so the run
\* ends with exit code 1.
C2_FailureExitsOne ==
    (AtLoopHead /\ env.emails + env.unverified + env.rejected
                     + Len(summary_error_bad_username)
                     + Len(summary_error_short_username) > 0)
       => exitCode = 1

\* C3: a row whose raw handle contains "@" appends one message to the
\* likely-email list, increments errored, sets the exit code to 1 and calls no
\* collaborator.
C3_EmailIsErrorWithoutCalls ==
    [][(pc = "email" /\ HasAt(HandleOf(participant))) =>
          /\ Appended(summary_error_likely_email, summary_error_likely_email')
          /\ count_error' = count_error + 1
          /\ exitCode' = 1
          /\ calls' = <<>>
          /\ pc' = "for"
          /\ UNCHANGED <<count_added, count_skipped, summary_error_bad_username,
                         summary_error_short_username, summary_error_nonexistent_username,
                         summary_error_message, registry, creates, env.found,
                         env.unverified, env.acknowledged, env.rejected>>]_vars

\* an email-shaped row has just been counted as the first error of the run
C3_Witness ==
    /\ pc = "for"
    /\ HasAt(HandleOf(participant))
    /\ Len(summary_error_likely_email) = 1
    /\ count_error = 1
    /\ exitCode = 1
    /\ calls = <<>>

\* C4: the three counters are never negative, their sum never exceeds the
\* number of rows fetched, every step adds at most one to exactly one of them,
\* every finished row has been counted once, and at the report the sum is the
\* number of rows.
C4_CountsInvariant ==
    /\ [](/\ count_added >= 0
          /\ count_skipped >= 0
          /\ count_error >= 0
          /\ Total <= i
          /\ i <= numRows
          /\ (AtLoopHead => Total = i)
          /\ (~AtLoopHead /\ pc # "KeyError" => Total = i - 1)
          /\ (pc \in {"report", "done"} => Total = numRows))
    /\ [][/\ count_added' >= count_added
          /\ count_skipped' >= count_skipped
          /\ count_error' >= count_error
          /\ count_added' + count_skipped' + count_error' <= Total + 1]_vars

\* a run of the longest roster has ended with all three counters above zero
C4_Witness ==
    /\ pc = "done"
    /\ numRows = MaxRows
    /\ count_added > 0
    /\ count_skipped > 0
    /\ count_error > 0
    /\ Total = numRows

\* C5: the report gives added = creates acknowledged, skipped = rows found in
\* the registry, errored = all other rows; a roster of five with one row found,
\* one email-shaped, one not verified and two created ends with 2, 1, 2 and a
\* nonzero exit code, in any order.
C5_SummaryMatchesOutcomes ==
    pc = "done" =>
       /\ count_added = env.acknowledged
       /\ count_skipped = env.found
       /\ count_error = numRows - env.found - env.acknowledged
       /\ (/\ numRows = 5
           /\ env.found = 1
           /\ env.emails = 1
           /\ env.unverified = 1
           /\ env.acknowledged = 2)
          => (count_added = 2 /\ count_skipped = 1 /\ count_error = 2 /\ exitCode # 0)

\* the roster of five of the claim has been reported
C5_Witness ==
    /\ pc = "done"
    /\ numRows = 5
    /\ env.found = 1
    /\ env.emails = 1
    /\ env.unverified = 1
    /\ env.acknowledged = 2
    /\ env.rejected = 0
    /\ count_added = 2
    /\ count_skipped = 1
    /\ count_error = 2
    /\ exitCode = 1

\* C6: a row that reaches the length check with a normalized handle of at most
\* three characters appends one message to the short-username list, increments
\* errored, sets the exit code to 1 and is neither verified nor created.
C6_ShortIsErrorWithoutVerify ==
    [][(pc = "length" /\ Len(HandleOf(participant)) <= 3) =>
          /\ Appended(summary_error_short_username, summary_error_short_username')
          /\ count_error' = count_error + 1
          /\ exitCode' = 1
          /\ calls' = <<"GET">>
          /\ pc' = "for"
          /\ UNCHANGED <<count_added, count_skipped, summary_error_likely_email,
                         summary_error_bad_username, summary_error_nonexistent_username,
                         summary_error_message, registry, creates, env>>]_vars

\* the row "n/a", unknown to the registry and not flagged, has just been counted
C6_Witness ==
    /\ pc = "for"
    /\ HandleOf(participant) = <<"n","/","a">>
    /\ NOTE_COLUMN \in DOMAIN participant
    /\ participant[NOTE_COLUMN] # NOT_A_VALID_ID
    /\ r # 200
    /\ Len(summary_error_short_username) = 1
    /\ count_error = 1
    /\ exitCode = 1
    /\ calls = <<"GET">>

\* C7: a roster in which every row is new, passes the checks, is verified and
\* has its create acknowledged ends with errored = 0, empty error lists and
\* exit code 0.
C7_CleanBatchExitsZero ==
    (/\ pc = "done"
     /\ env.emails = 0
     /\ env.found = 0
     /\ env.unverified = 0
     /\ env.rejected = 0
     /\ env.acknowledged = numRows)
    => /\ count_error = 0
       /\ count_added = numRows
       /\ exitCode = 0
       /\ summary_error_likely_email = <<>>
       /\ summary_error_bad_username = <<>>
       /\ summary_error_short_username = <<>>
       /\ summary_error_nonexistent_username = <<>>
       /\ summary_error_message = <<>>

\* a roster of several rows, one of them acknowledged with 201, has ended clean
C7_Witness ==
    /\ pc = "done"
    /\ numRows >= 2
    /\ env.acknowledged = numRows
    /\ r = 201
    /\ count_added = numRows
    /\ exitCode = 0

\* C8: normalization is idempotent: normalizing a normalized handle gives the
\* same handle.
C8_NormalizeIdempotent ==
    \A k \in 2..Len(out) : out[k] = out[1]

\* C9: every row is processed and the run reaches the report: the script is
\* always inside the loop or past it, no row stops it.
C9_BatchNeverAborted ==
    /\ pc \in {"for", "email", "normalize", "lookup", "note", "length", "verify",
               "create", "report", "done"}
    /\ (pc \in {"report", "done"} => i = numRows)

\* C10: against a registry that holds a handle exactly when it held it at the
\* start or acknowledged its create, no create is issued for a handle the
\* registry holds, no two acknowledged creates are for the same handle up to
\* case, also across a second run of the script.
C10_NoDuplicateCreate ==
    /\ [](registryKind = "store" =>
             \A a, b \in DOMAIN creates : a # b => Lower(creates[a]) # Lower(creates[b]))
    /\ [][(registryKind = "store" /\ pc = "create") =>
             /\ send.GithubName \notin registry
             /\ \A a \in DOMAIN creates : creates[a] # send.GithubName]_vars

\* in the second run a row whose handle the first run created is skipped
C10_Witness ==
    /\ registryKind = "store"
    /\ run = 2
    /\ pc = "for"
    /\ i > 0
    /\ env.acknowledged = 0
    /\ \E a \in DOMAIN creates : creates[a] = HandleOf(participant)
    /\ r = 200
    /\ calls = <<"GET">>
    /\ count_skipped >= 1

====
